---- MODULE Spec2Model ----
(***************************************************************************)
(* CFDefinitionsBuilder (src/src/cf-definitions-builder.ts): the in-memory *)
(* ts-morph project of generated source files, appendType / toString /     *)
(* write, and the private helpers they call.                               *)
(*                                                                         *)
(* A source file is the sequence of its top-level statements.  A type     *)
(* expression is the sequence of its tokens, so that String.includes and   *)
(* "is this imported name used" are computed, not assumed.                 *)
(***************************************************************************)
EXTENDS Naturals, Sequences, FiniteSets

\* longest field list of a content type handed to appendType
MaxFields == 2

\* sys.id of the content types the caller may pass
Ids == {"post", "author"}

\* sys.type of a descriptor: the expected marker and another one
SysTypes == {"ContentType", "Asset"}

mergeFileName == "ContentTypes"

indexFileName == "index"

InvalidModel == "given data is not describing a ContentType"

-----------------------------------------------------------------------------
(* ./utils : naming                                                        *)

\* PascalCase of a raw identifier; a name already in PascalCase is kept
moduleName(name) ==
  CASE name = "post" -> "Post"
    [] name = "author" -> "Author"
    [] OTHER -> name

moduleFieldsName(name) == moduleName(name) \o "Fields"

\* SCREAMING_SNAKE of the name, with the _TYPE_ID suffix
moduleTypeIdName(name) ==
  CASE moduleName(name) = "Post" -> "POST_TYPE_ID"
    [] moduleName(name) = "Author" -> "AUTHOR_TYPE_ID"
    [] moduleName(name) = "ContentTypes" -> "CONTENT_TYPES_TYPE_ID"
    [] OTHER -> name \o "_TYPE_ID"

-----------------------------------------------------------------------------
(* inputs                                                                  *)

\* contentful Field: the parts the builder and its collaborators read
FieldPool ==
  {[id |-> "title", type |-> "Symbol", linkContentType |-> "",
    required |-> r, omitted |-> o] : r \in BOOLEAN, o \in BOOLEAN}
  \cup
  {[id |-> "ref", type |-> "Link", linkContentType |-> t,
    required |-> r, omitted |-> o] : t \in Ids, r \in BOOLEAN, o \in BOOLEAN}

FieldLists == UNION {[1..n -> FieldPool] : n \in 0..MaxFields}

\* CFContentType: every descriptor over the field pool
Descriptors ==
  {[sys |-> [id |-> i, type |-> t], fields |-> fs] :
     i \in Ids, t \in SysTypes, fs \in FieldLists}

\* the descriptors of a whole session of calls: no field, a required symbol
\* field, or an optional link to a content type
SessionFieldLists ==
  {<<>>,
   <<[id |-> "title", type |-> "Symbol", linkContentType |-> "",
      required |-> TRUE, omitted |-> FALSE]>>}
  \cup
  {<<[id |-> "ref", type |-> "Link", linkContentType |-> t,
      required |-> FALSE, omitted |-> FALSE]>> : t \in Ids}

SessionDescriptors ==
  {[sys |-> [id |-> i, type |-> t], fields |-> fs] :
     i \in Ids, t \in SysTypes, fs \in SessionFieldLists}

-----------------------------------------------------------------------------
(* ./renderer : type expressions as token sequences                        *)

renderGenericType(name, arg) == <<name, "<">> \o arg \o <<">">>

RECURSIVE renderUnionType(_)
renderUnionType(types) ==
  IF Len(types) = 0 THEN <<>>
  ELSE IF Len(types) = 1 THEN types[1]
  ELSE types[1] \o <<"|">> \o renderUnionType(Tail(types))

renderProp(field) ==
  IF field.type = "Link"
  THEN renderGenericType("EntryLink", <<moduleName(field.linkContentType)>>)
  ELSE <<"Contentful", ".", "EntryFields", ".", field.type>>

\* type.includes('Contentful.')
IncludesContentfulDot(type) ==
  \E i \in 1..(Len(type) - 1) : type[i] = "Contentful" /\ type[i + 1] = "."

\* type.includes('EntryLink')
IncludesEntryLink(type) == \E i \in 1..Len(type) : type[i] = "EntryLink"

-----------------------------------------------------------------------------
(* ts-morph structures: one record shape for every statement kind          *)

Blank ==
  [kind |-> "", name |-> "", properties |-> <<>>, type |-> <<>>,
   moduleSpecifier |-> "", namespaceImport |-> "", named |-> {},
   isTypeOnly |-> FALSE, initializer |-> ""]

NamespaceImport(specifier, ns) ==
  [Blank EXCEPT !.kind = "ImportDeclaration", !.moduleSpecifier = specifier,
                !.namespaceImport = ns]

NamedImport(specifier, names, typeOnly) ==
  [Blank EXCEPT !.kind = "ImportDeclaration", !.moduleSpecifier = specifier,
                !.named = names, !.isTypeOnly = typeOnly]

ExportDeclaration(specifier, names, typeOnly) ==
  [Blank EXCEPT !.kind = "ExportDeclaration", !.moduleSpecifier = specifier,
                !.named = names, !.isTypeOnly = typeOnly]

Interface(name) == [Blank EXCEPT !.kind = "Interface", !.name = name]

TypeAlias(name, type) ==
  [Blank EXCEPT !.kind = "TypeAlias", !.name = name, !.type = type]

\* export const <name> = '<value>';
VariableStatement(name, value) ==
  [Blank EXCEPT !.kind = "VariableStatement", !.name = name,
                !.initializer = value]

IsImport(s) == s.kind = "ImportDeclaration"

\* ./cf-property-imports : the imports a field needs inside module ignoreModule
propertyImports(field, ignoreModule) ==
  IF field.type = "Link" /\ moduleName(field.linkContentType) # ignoreModule
  THEN <<NamedImport("./" \o moduleName(field.linkContentType),
                     {moduleName(field.linkContentType)}, FALSE)>>
  ELSE <<>>

-----------------------------------------------------------------------------
(* ts-morph SourceFile operations on a statement sequence                  *)

\* position of the last import declaration, 0 when there is none
LastImportIndex(stmts) ==
  LET idx == {i \in 1..Len(stmts) : IsImport(stmts[i])}
  IN IF idx = {} THEN 0 ELSE CHOOSE i \in idx : \A j \in idx : j <= i

\* SourceFile.addImportDeclaration: inserted after the last import
addImportDeclaration(stmts, imp) ==
  LET k == LastImportIndex(stmts)
  IN SubSeq(stmts, 1, k) \o <<imp>> \o SubSeq(stmts, k + 1, Len(stmts))

RECURSIVE addImportDeclarations(_, _)
addImportDeclarations(stmts, imps) ==
  IF Len(imps) = 0 THEN stmts
  ELSE addImportDeclarations(addImportDeclaration(stmts, imps[1]), Tail(imps))

\* identifiers a statement refers to (what keeps an import used)
Identifiers(s) ==
  CASE s.kind = "Interface" ->
         UNION {{s.properties[i].type[j] : j \in 1..Len(s.properties[i].type)} :
                  i \in 1..Len(s.properties)}
    [] s.kind = "TypeAlias" -> {s.type[j] : j \in 1..Len(s.type)}
    [] s.kind = "ExportDeclaration" ->
         IF s.moduleSpecifier = "" THEN s.named ELSE {}
    [] OTHER -> {}

UsedIdentifiers(stmts) == UNION {Identifiers(stmts[i]) : i \in 1..Len(stmts)}

\* TypeScript's order of module specifiers: absolute before relative, each
\* alphabetically
SpecifierOrder ==
  <<"@contentful/rich-text-types", "@src/types/contentful/static", "contentful",
    "./Author", "./ContentTypes", "./Post">>

ImportRank(imp) ==
  LET r == CHOOSE i \in 1..Len(SpecifierOrder) :
             SpecifierOrder[i] = imp.moduleSpecifier
  IN 4 * r + (IF imp.isTypeOnly THEN 2 ELSE 0)
           + (IF imp.namespaceImport = "" THEN 1 ELSE 0)

RECURSIVE SortImports(_)
SortImports(imps) ==
  IF imps = {} THEN <<>>
  ELSE LET m == CHOOSE x \in imps : \A y \in imps : ImportRank(x) <= ImportRank(y)
       IN <<m>> \o SortImports(imps \ {m})

\* SourceFile.organizeImports: unused imports removed, imports of one
\* specifier and kind coalesced, the rest sorted and kept on top
organizeImports(stmts) ==
  LET used == UsedIdentifiers(stmts)
      imps == {stmts[i] : i \in {j \in 1..Len(stmts) : IsImport(stmts[j])}}
      live == {[i EXCEPT !.named = i.named \cap used] : i \in
                 {x \in imps : x.namespaceImport \in used
                               \/ x.named \cap used # {}}}
      merged == {[i EXCEPT !.named = UNION {x.named : x \in
                    {y \in live : /\ y.moduleSpecifier = i.moduleSpecifier
                                  /\ y.isTypeOnly = i.isTypeOnly
                                  /\ y.namespaceImport = i.namespaceImport}}] :
                   i \in live}
  IN SortImports(merged) \o SelectSeq(stmts, LAMBDA s : ~IsImport(s))

-----------------------------------------------------------------------------
(* CFDefinitionsBuilder: private helpers.  A project maps the base name of *)
(* each source file to its statements.                                     *)

\* a fresh builder: new Project({useInMemoryFileSystem: true})
EmptyProject == [n \in {} |-> <<>>]

\* createSourceFile without the overwrite: an existing file keeps its text
addFile_keep(p, name) ==
  [n \in DOMAIN p \cup {name} |-> IF n \in DOMAIN p THEN p[n] ELSE <<>>]

\* the file created in a project of its own
addFile_fresh(p, name) == [n \in {name} |-> <<>>]

\* createSourceFile(`${name}.ts`, undefined, {overwrite: true})
addFile(p, name) ==
  [n \in DOMAIN p \cup {name} |-> IF n = name THEN <<>> ELSE p[n]]

\* project.removeSourceFile
removeSourceFile(p, name) == [n \in DOMAIN p \ {name} |-> p[n]]

\* project.getSourceFiles(): ts-morph lists the files of a directory by base
\* name (locale order, so index comes before Post)
SourceFileOrder == <<"Author", "ContentTypes", "index", "Post">>

getSourceFiles(p) == SelectSeq(SourceFileOrder, LAMBDA n : n \in DOMAIN p)

createInterfaceDeclaration(stmts, name) == Append(stmts, Interface(name))

addDefaultImports(stmts) ==
  addImportDeclaration(
    addImportDeclaration(stmts, NamespaceImport("contentful", "Contentful")),
    NamedImport("@src/types/contentful/static", {"CMSEntry"}, FALSE))

\* declaration.addProperty on the interface named declName
AddInterfaceProperty(stmts, declName, prop) ==
  [i \in 1..Len(stmts) |->
     IF stmts[i].kind = "Interface" /\ stmts[i].name = declName
     THEN [stmts[i] EXCEPT !.properties = Append(@, prop)]
     ELSE stmts[i]]

\* the question token set from required alone
addProperty_requiredOnly(stmts, fileName, declName, field) ==
  LET type == renderProp(field)
      s1 == AddInterfaceProperty(stmts, declName,
              [name |-> field.id, hasQuestionToken |-> ~field.required,
               type |-> type])
      s2 == IF IncludesContentfulDot(type)
            THEN addImportDeclaration(s1, NamespaceImport("contentful", "Contentful"))
            ELSE s1
      s3 == IF IncludesEntryLink(type)
            THEN addImportDeclaration(s2,
                   NamedImport("@src/types/contentful/static", {"EntryLink"}, FALSE))
            ELSE s2
      s4 == addImportDeclaration(s3,
              NamespaceImport("@contentful/rich-text-types", "CFRichTextTypes"))
  IN addImportDeclarations(s4, propertyImports(field, fileName))

addProperty(stmts, fileName, declName, field) ==
  LET type == renderProp(field)
      s1 == AddInterfaceProperty(stmts, declName,
              [name |-> field.id,
               hasQuestionToken |-> (field.omitted \/ ~field.required),
               type |-> type])
      s2 == IF IncludesContentfulDot(type)
            THEN addImportDeclaration(s1, NamespaceImport("contentful", "Contentful"))
            ELSE s1
      s3 == IF IncludesEntryLink(type)
            THEN addImportDeclaration(s2,
                   NamedImport("@src/types/contentful/static", {"EntryLink"}, FALSE))
            ELSE s2
      s4 == addImportDeclaration(s3,
              NamespaceImport("@contentful/rich-text-types", "CFRichTextTypes"))
  IN addImportDeclarations(s4, propertyImports(field, fileName))

\* model.fields.forEach(field => this.addProperty(file, interfaceDeclaration, field))
RECURSIVE addProperties(_, _, _, _)
addProperties(stmts, fileName, declName, fields) ==
  IF Len(fields) = 0 THEN stmts
  ELSE addProperties(addProperty(stmts, fileName, declName, fields[1]),
                     fileName, declName, Tail(fields))

addEntryTypeAlias(stmts, fileName, aliasName, entryType) ==
  LET typeIdName == moduleTypeIdName(fileName)
  IN Append(Append(stmts, VariableStatement(typeIdName, aliasName)),
            TypeAlias(moduleName(aliasName),
                      renderGenericType("CMSEntry",
                                        <<"typeof", typeIdName, ",", entryType>>)))

\* the file is created before the descriptor is validated
appendType_lateValidation(p, model) ==
  LET name == moduleName(model.sys.id)
      fieldsName == moduleFieldsName(model.sys.id)
      p1 == addFile(p, name)
      s0 == addDefaultImports(p1[name])
      s1 == createInterfaceDeclaration(s0, fieldsName)
      s2 == addProperties(s1, name, fieldsName, model.fields)
      s3 == addEntryTypeAlias(s2, name, model.sys.id, fieldsName)
  IN IF model.sys.type # "ContentType"
     THEN [project |-> p1, error |-> InvalidModel]
     ELSE [project |-> [p1 EXCEPT ![name] = organizeImports(s3)], error |-> ""]

\* appendType: the project afterwards and the error thrown ("" when none)
appendType(p, model) ==
  IF model.sys.type # "ContentType"
  THEN [project |-> p, error |-> InvalidModel]
  ELSE LET name == moduleName(model.sys.id)
           fieldsName == moduleFieldsName(model.sys.id)
           p1 == addFile(p, name)
           s0 == addDefaultImports(p1[name])
           s1 == createInterfaceDeclaration(s0, fieldsName)
           s2 == addProperties(s1, name, fieldsName, model.fields)
           s3 == addEntryTypeAlias(s2, name, model.sys.id, fieldsName)
       IN [project |-> [p1 EXCEPT ![name] = organizeImports(s3)], error |-> ""]

\* files.forEach(fileName => ...) of addIndexFile
RECURSIVE addIndexEntries(_, _)
addIndexEntries(stmts, files) ==
  IF Len(files) = 0 THEN stmts
  ELSE LET fileName == files[1]
           names == {moduleName(fileName), moduleFieldsName(fileName)}
           s1 == addImportDeclaration(stmts,
                   NamedImport("./" \o fileName, names, TRUE))
           s2 == Append(s1, ExportDeclaration("", names, TRUE))
           s3 == Append(s2, ExportDeclaration("./" \o fileName,
                                              {moduleTypeIdName(fileName)}, FALSE))
       IN addIndexEntries(s3, Tail(files))

addIndexFile(p) ==
  LET p0 == IF indexFileName \in DOMAIN p
            THEN removeSourceFile(p, indexFileName) ELSE p
      files == getSourceFiles(p0)
      p1 == addFile(p0, indexFileName)
      cmsEntries == [i \in 1..Len(files) |-> moduleName(files[i])]
      s0 == addImportDeclaration(p1[indexFileName],
              NamedImport("@src/types/contentful/static",
                          {"CMSManagementEntry"}, FALSE))
      s1 == addIndexEntries(s0, files)
      s2 == Append(s1, TypeAlias("CMSEntries",
              renderUnionType([i \in 1..Len(files) |-> <<cmsEntries[i]>>])))
      s3 == Append(s2, TypeAlias("CMSManagementEntries",
              renderUnionType([i \in 1..Len(files) |->
                renderGenericType("CMSManagementEntry", <<cmsEntries[i]>>)])))
  IN [p1 EXCEPT ![indexFileName] = organizeImports(s3)]

\* importD.moduleSpecifier.slice(2)
Slice2(specifier) ==
  CASE specifier = "contentful" -> "ntentful"
    [] specifier = "@src/types/contentful/static" -> "rc/types/contentful/static"
    [] specifier = "@contentful/rich-text-types" -> "ontentful/rich-text-types"
    [] specifier = "./Post" -> "Post"
    [] specifier = "./Author" -> "Author"
    [] specifier = "./ContentTypes" -> "ContentTypes"

\* the structures forEachStructureChild hands to the callback, file by file
RECURSIVE StructureChildren(_, _)
StructureChildren(p, files) ==
  IF Len(files) = 0 THEN <<>>
  ELSE p[files[1]] \o StructureChildren(p, Tail(files))

IsMergeable(s) == s.kind \in {"ImportDeclaration", "Interface", "TypeAlias"}

\* position of the first structure the switch has no case for
FirstUnhandled(children) ==
  LET bad == {i \in 1..Len(children) : ~IsMergeable(children[i])}
  IN IF bad = {} THEN Len(children) + 1
     ELSE CHOOSE i \in bad : \A j \in bad : i <= j

UnhandledNodeType(kind) == "Unhandled node type '" \o kind \o "'."

DeclarationNames(stmts) ==
  LET decls == SelectSeq(stmts, LAMBDA s : s.kind \in {"Interface", "TypeAlias"})
  IN [i \in 1..Len(decls) |-> decls[i].name]

SeqIncludes(seq, x) == \E i \in 1..Len(seq) : seq[i] = x

\* each import is filtered and added as it is met, against the names
\* collected so far
mergeFile_eager(p, name) ==
  LET p1 == addFile(p, name)
      files == SelectSeq(getSourceFiles(p1), LAMBDA n : n # name)
      children == StructureChildren(p1, files)
      stop == FirstUnhandled(children)
      visited == SubSeq(children, 1, stop - 1)
      keptAt == {i \in 1..Len(visited) :
                   /\ IsImport(visited[i])
                   /\ ~SeqIncludes(DeclarationNames(SubSeq(visited, 1, i)),
                                   Slice2(visited[i].moduleSpecifier))}
      kept == [i \in 1..Len(visited) |-> i \in keptAt]
      flagged == [i \in 1..Len(visited) |-> [s |-> visited[i], keep |-> kept[i]]]
      imports == SelectSeq(flagged, LAMBDA f : f.keep)
      decls == SelectSeq(visited, LAMBDA s : ~IsImport(s))
      merged == addImportDeclarations(decls, [i \in 1..Len(imports) |-> imports[i].s])
  IN IF stop <= Len(children)
     THEN [project |-> [p1 EXCEPT ![name] = merged],
           error |-> UnhandledNodeType(children[stop].kind)]
     ELSE [project |-> [p1 EXCEPT ![name] = organizeImports(merged)],
           error |-> ""]

\* mergeFile: a throw leaves the merge file with the declarations added
\* before it
mergeFile(p, name) ==
  LET p1 == addFile(p, name)
      files == SelectSeq(getSourceFiles(p1), LAMBDA n : n # name)
      children == StructureChildren(p1, files)
      stop == FirstUnhandled(children)
      visited == SubSeq(children, 1, stop - 1)
      imports == SelectSeq(visited, IsImport)
      decls == SelectSeq(visited, LAMBDA s : ~IsImport(s))
      types == DeclarationNames(decls)
      kept == SelectSeq(imports,
                LAMBDA i : ~SeqIncludes(types, Slice2(i.moduleSpecifier)))
  IN IF stop <= Len(children)
     THEN [project |-> [p1 EXCEPT ![name] = decls],
           error |-> UnhandledNodeType(children[stop].kind)]
     ELSE [project |-> [p1 EXCEPT ![name] =
                          organizeImports(addImportDeclarations(decls, kept))],
           error |-> ""]

\* Promise.race in place of Promise.all: settled by the first write to settle
PromiseAll_race(ws) ==
  IF \E n \in DOMAIN ws : ws[n] = "failed" THEN "rejected"
  ELSE IF \E n \in DOMAIN ws : ws[n] = "ok" THEN "resolved"
  ELSE "pending"

\* Promise.all over the write promises: rejected with the first rejection,
\* resolved once every one is fulfilled
PromiseAll(ws) ==
  IF \E n \in DOMAIN ws : ws[n] = "failed" THEN "rejected"
  ELSE IF \A n \in DOMAIN ws : ws[n] = "ok" THEN "resolved"
  ELSE "pending"

-----------------------------------------------------------------------------
(* the builder and its caller                                              *)

VARIABLES
  project,   \* this.project: base name of each source file -> its statements
  call,      \* the caller's latest call and the error it threw
  models,    \* file name -> the descriptor whose appendType made the file
  writes,    \* fs.writeFile promises of the latest write: file -> state
  promise    \* what await write(dir) has shown the caller

vars == <<project, call, models, writes, promise>>

NoCall == [op |-> "new", error |-> "", again |-> FALSE]

NoWrites == [n \in {} |-> "pending"]

Init ==
  /\ project = EmptyProject
  /\ call = NoCall
  /\ models = [n \in {} |-> 0]
  /\ writes = NoWrites
  /\ promise = "none"

Outstanding == {n \in DOMAIN writes : writes[n] = "pending"}

\* the caller makes its next call once the writes of the latest write(dir)
\* have settled: one batch of writes is in flight at a time
CallerReady == Outstanding = {}

\* call.again: the file was there, made by appendType of this very descriptor
AppendType(model) ==
  /\ CallerReady
  /\ LET r == appendType(project, model)
         name == moduleName(model.sys.id)
     IN /\ project' = r.project
        /\ call' = [op |-> "appendType", error |-> r.error,
                    again |-> /\ r.error = ""
                              /\ name \in DOMAIN models
                              /\ models[name] = model]
        /\ models' = IF r.error = ""
                     THEN [n \in DOMAIN models \cup {name} |->
                             IF n = name THEN model ELSE models[n]]
                     ELSE models
  /\ writes' = NoWrites
  /\ promise' = "none"

\* toString = () => this.mergeFile().getFullText()
ToString ==
  /\ CallerReady
  /\ LET r == mergeFile(project, mergeFileName)
     IN /\ project' = r.project
        /\ call' = [op |-> "toString", error |-> r.error, again |-> FALSE]
  /\ writes' = NoWrites
  /\ promise' = "none"
  /\ UNCHANGED models

\* write up to the await: the index is rebuilt and every write is started
Write ==
  /\ CallerReady
  /\ project' = addIndexFile(project)
  /\ writes' = [n \in DOMAIN project' |-> "pending"]
  /\ promise' = PromiseAll(writes')
  /\ call' = [op |-> "write", error |-> "", again |-> FALSE]
  /\ UNCHANGED models

\* one fs.writeFile promise settles; Promise.all is settled only once
WriteSettle(n, outcome) ==
  /\ writes[n] = "pending"
  /\ writes' = [writes EXCEPT ![n] = outcome]
  /\ promise' = IF promise = "pending" THEN PromiseAll(writes') ELSE promise
  /\ UNCHANGED <<project, call, models>>

Next ==
  \/ \E model \in SessionDescriptors : AppendType(model)
  \/ ToString
  \/ Write
  \/ \E n \in DOMAIN writes, outcome \in {"ok", "failed"} : WriteSettle(n, outcome)

\* a session of appendType, toString and write calls
Spec == Init /\ [][Next]_vars

\* the first appendType of a fresh builder, over every descriptor
FirstAppendType(model) == DOMAIN project = {} /\ AppendType(model)

NextFirstCall == \E model \in Descriptors : FirstAppendType(model)

SpecFirstCall == Init /\ [][NextFirstCall]_vars

-----------------------------------------------------------------------------
(* what the claims speak of                                                *)

Range(seq) == {seq[i] : i \in 1..Len(seq)}

NoDuplicates(seq) == \A i, j \in 1..Len(seq) : i # j => seq[i] # seq[j]

ImportsOf(stmts) == {s \in Range(stmts) : IsImport(s)}

\* the files an appendType call made
EntityFiles == DOMAIN models

\* the files mergeFile reads
MergedFrom == DOMAIN project \ {mergeFileName}

\* the module appendType makes of a descriptor in a project of its own
Alone(model) == appendType(EmptyProject, model).project[moduleName(model.sys.id)]

\* the members of a union of names, or of CMSManagementEntry<name>
UnionMembers(type) ==
  SelectSeq(type, LAMBDA t : t \notin {"|", "<", ">", "CMSManagementEntry"})

AliasType(stmts, name) ==
  LET found == SelectSeq(stmts, LAMBDA s : s.kind = "TypeAlias" /\ s.name = name)
  IN found[1].type

\* a specifier with the leading "./"
IsRelative(specifier) ==
  \E n \in Range(SourceFileOrder) : specifier = "./" \o n

\* the interface and type alias names of the files mergeFile reads
LocalNames == UNION {Range(DeclarationNames(project[n])) : n \in MergedFrom}

\* C1: appendType of a descriptor whose sys.type is not "ContentType" throws
\* and leaves the project as it was: the same files with the same statements,
\* whatever calls came before.
C1_InvalidDescriptorLeavesGraph ==
  [][\A model \in SessionDescriptors :
       (model.sys.type # "ContentType" /\ AppendType(model))
         => (call'.error = InvalidModel /\ project' = project)]_vars

\* an invalid descriptor was refused by a builder that holds entity files, a
\* merge file and an index
C1_Witness ==
  /\ call.op = "appendType"
  /\ call.error = InvalidModel
  /\ EntityFiles # {}
  /\ {mergeFileName, indexFileName} \subseteq DOMAIN project

\* C2: toString on a project built by appendType calls alone returns a merged
\* module whose interface and type alias names are exactly the names of the
\* modules of the descriptors synthesized one by one, each name once.
C2_MergeRoundTrip ==
  (call.op = "toString" /\ MergedFrom = EntityFiles)
    => /\ call.error = ""
       /\ NoDuplicates(DeclarationNames(project[mergeFileName]))
       /\ Range(DeclarationNames(project[mergeFileName]))
            = UNION {Range(DeclarationNames(Alone(models[n]))) : n \in EntityFiles}

C4_IndexCompleteness ==
  call.op = "write" =>
    \A alias \in {"CMSEntries", "CMSManagementEntries"} :
      LET members == UnionMembers(AliasType(project[indexFileName], alias))
      IN /\ NoDuplicates(members)
         /\ Range(members) = {moduleName(n) : n \in EntityFiles}

C6_AppendTwice ==
  [][\A model \in SessionDescriptors :
       (/\ model.sys.type = "ContentType"
        /\ moduleName(model.sys.id) \in DOMAIN models
        /\ models[moduleName(model.sys.id)] = model
        /\ AppendType(model))
         => project' = project]_vars

\* a descriptor with a field was appended over the file it had made
C6_Witness ==
  /\ call.op = "appendType"
  /\ call.again
  /\ \E n \in EntityFiles : Len(models[n].fields) > 0 /\ Len(project[n]) > 4

\* C7: appendType of a valid descriptor adds or replaces the file of its own
\* entity only, every other file keeps its statements, and the file it makes
\* is the one it makes in an empty project, so the order of the calls does not
\* show in any entity's file.
C7_EntityIndependence ==
  [][\A model \in SessionDescriptors :
       (/\ model.sys.type = "ContentType"
        /\ moduleName(model.sys.id) \in DOMAIN models'
        /\ models'[moduleName(model.sys.id)] = model
        /\ AppendType(model))
         => LET name == moduleName(model.sys.id)
            IN /\ DOMAIN project' = DOMAIN project \cup {name}
               /\ \A n \in DOMAIN project \ {name} : project'[n] = project[n]
               /\ project'[name] = Alone(model)]_vars

\* an entity was appended next to another one that links to it
C7_Witness ==
  /\ call.op = "appendType"
  /\ call.error = ""
  /\ \E a \in EntityFiles :
       \E b \in EntityFiles \ {a} :
         \E i \in ImportsOf(project[a]) : i.moduleSpecifier = "./" \o b

\* C8: the fields interface of a valid descriptor has one property for each
\* field, in the order of the fields, named by the field's id, with a question
\* token exactly when the field is omitted or not required.
C8_FieldProperties ==
  \A n \in EntityFiles :
    LET model == models[n]
        decls == SelectSeq(project[n],
                   LAMBDA s : /\ s.kind = "Interface"
                              /\ s.name = moduleFieldsName(model.sys.id))
    IN /\ Len(decls) = 1
       /\ Len(decls[1].properties) = Len(model.fields)
       /\ \A i \in 1..Len(model.fields) :
            /\ decls[1].properties[i].name = model.fields[i].id
            /\ decls[1].properties[i].hasQuestionToken
                 = (model.fields[i].omitted \/ ~model.fields[i].required)

\* two fields: the first required and omitted, the second required and kept
C8_Witness ==
  \E n \in EntityFiles :
    /\ Len(models[n].fields) = 2
    /\ models[n].fields[1].required /\ models[n].fields[1].omitted
    /\ models[n].fields[2].required /\ ~models[n].fields[2].omitted
    /\ models[n].fields[1].id # models[n].fields[2].id

\* C9: every statement of every file the builder makes is an import, an
\* interface or a type alias, and toString never throws on an unhandled node
\* type.
C9_OnlyMergeableStatements ==
  call.op = "toString" =>
    /\ \A n \in MergedFrom : \A s \in Range(project[n]) : IsMergeable(s)
    /\ call.error = ""

\* C10: after a merge, every import of a merged file is in the merge file
\* unless its specifier is "./" followed by an interface or type alias name of
\* the merged files.
C10_OtherImportsKept ==
  call.op = "toString" =>
    \A n \in MergedFrom :
      \A i \in ImportsOf(project[n]) :
        ~(IsRelative(i.moduleSpecifier) /\ Slice2(i.moduleSpecifier) \in LocalNames)
          => \E m \in ImportsOf(project[mergeFileName]) :
               /\ m.moduleSpecifier = i.moduleSpecifier
               /\ m.isTypeOnly = i.isTypeOnly
               /\ m.namespaceImport = i.namespaceImport
               /\ i.named \subseteq m.named

=============================================================================
